---- MODULE Spec2Model ----
(***************************************************************************)
(* Model of debugger/code_analyzer/generate_requirements.py: the scan of a *)
(* source tree for third-party imports and the synthesis of the dependency *)
(* manifests.  Text (file contents, paths, package names, manifest bytes)  *)
(* is modelled as strings, character by character; a run of                *)
(* generate_requirements is a sequence of steps driven by pc.              *)
(***************************************************************************)
EXTENDS Integers, Sequences, FiniteSets, TLC

VARIABLES
    disk,                \* the file system below the scan roots, in enumeration order
    cwd,                 \* the working directory: file name -> content, or NoFile
    registry,            \* the registries' answers given so far: URL -> response
    pc,                  \* position of the current call of generate_requirements
    directory,           \* argument of the current call
    output_file,         \* argument of the current call
    files,               \* scan_directory: entries not yet visited (indices into disk)
    imports_by_language, \* scan_directory: dict as a sequence of [lang, packages]
    found_imports,       \* result of the last call of extract_imports
    lang_idx,            \* generate_requirements: position in all_imports.items()
    pkg_idx,             \* generate_requirements: position in sorted(packages)
    handle,              \* the manifest file open for writing, or NoHandle
    reads,               \* paths opened for reading by the current call
    gets,                \* registry GETs issued by the current call, in order
    written,             \* manifest files opened for writing by the current call
    console,             \* kinds of lines printed by the current call
    result,              \* what the caller of the current call observes
    calls,               \* number of calls of generate_requirements so far
    before               \* the working directory when the current call began,
                         \* the arguments of the call before it, and whether
                         \* the current call repeats them

vars == <<disk, cwd, registry, pc, directory, output_file, files,
          imports_by_language, found_imports, lang_idx, pkg_idx, handle,
          reads, gets, written, console, result, calls, before>>

----------------------------------------------------------------------------
(* Bounds *)

MaxFiles == 2      \* entries on the disk
MaxCalls == 2      \* successive calls of generate_requirements
MaxLines == 2      \* lines of a source text given to extract_imports

----------------------------------------------------------------------------
(* Strings *)

Min(S) == CHOOSE x \in S : \A y \in S : x <= y
Max(S) == CHOOSE x \in S : \A y \in S : x >= y

Char(s, i) == SubSeq(s, i, i)

CharSet(s) == { Char(s, i) : i \in 1..Len(s) }

Lowercase == "abcdefghijklmnopqrstuvwxyz"
Uppercase == "ABCDEFGHIJKLMNOPQRSTUVWXYZ"
Digits == "0123456789"

\* the class [a-zA-Z0-9_\.] of the import patterns
ModuleChars == CharSet(Lowercase) \cup CharSet(Uppercase) \cup CharSet(Digits) \cup {"_", "."}

\* the class \s, and the characters str.strip() removes
Whitespace == {" ", "\t", "\n", "\r", "\f"}

\* the characters at which str.splitlines() ends a line
LineBoundaries == {"\n", "\f"}

\* the characters excluded by [^'"] and [^/'"]
Quotes == {"'", "\""}

\* printable ASCII in code point order (32..95 and 97..126): the order
\* sorted() gives to str
AsciiLow == " !\"#$%&'()*+,-./0123456789:;<=>?@ABCDEFGHIJKLMNOPQRSTUVWXYZ[\\]^_"
AsciiHigh == "abcdefghijklmnopqrstuvwxyz{|}~"

\* ord() of the characters above
CodePoints ==
    [ c \in CharSet(AsciiLow) \cup CharSet(AsciiHigh) |->
        IF c \in CharSet(AsciiLow)
        THEN 31 + Min({ i \in 1..Len(AsciiLow) : Char(AsciiLow, i) = c })
        ELSE 96 + Min({ i \in 1..Len(AsciiHigh) : Char(AsciiHigh, i) = c }) ]

Ord(c) == IF c \in DOMAIN CodePoints THEN CodePoints[c] ELSE 0

\* a < b for Python str
StrLess(a, b) ==
    \E k \in 1..(Len(b)) :
        /\ k <= Len(a) + 1
        /\ SubSeq(a, 1, k - 1) = SubSeq(b, 1, k - 1)
        /\ \/ k = Len(a) + 1
           \/ k <= Len(a) /\ Ord(Char(a, k)) < Ord(Char(b, k))

\* str.lower()
LowerCase ==
    [ c \in CharSet(Uppercase) |->
        Char(Lowercase, Min({ i \in 1..26 : Char(Uppercase, i) = c })) ]

LowerChar(c) == IF c \in DOMAIN LowerCase THEN LowerCase[c] ELSE c

RECURSIVE Lower(_)
Lower(s) == IF s = "" THEN "" ELSE LowerChar(Head(s)) \o Lower(Tail(s))

\* str.startswith(lit), at offset i
StartsWithAt(s, i, lit) ==
    /\ i + Len(lit) - 1 <= Len(s)
    /\ SubSeq(s, i, i + Len(lit) - 1) = lit

StartsWith(s, lit) == StartsWithAt(s, 1, lit)

\* the last position j >= i - 1 such that s[i..j] lies within class
RunEnd(s, i, class) ==
    LET stops == { k \in i..Len(s) : Char(s, k) \notin class }
    IN  IF stops = {} THEN Len(s) ELSE Min(stops) - 1

\* the last position j >= i - 1 such that s[i..j] avoids class
RunEndNot(s, i, class) ==
    LET stops == { k \in i..Len(s) : Char(s, k) \in class }
    IN  IF stops = {} THEN Len(s) ELSE Min(stops) - 1

\* str.strip()
Strip(s) ==
    LET keep == { k \in 1..Len(s) : Char(s, k) \notin Whitespace }
    IN  IF keep = {} THEN "" ELSE SubSeq(s, Min(keep), Max(keep))

\* str.splitlines(), for texts without "\r"
RECURSIVE SplitLines(_)
SplitLines(s) ==
    IF s = "" THEN << >>
    ELSE LET nl == { k \in 1..Len(s) : Char(s, k) \in LineBoundaries }
         IN  IF nl = {} THEN << s >>
             ELSE << SubSeq(s, 1, Min(nl) - 1) >>
                  \o SplitLines(SubSeq(s, Min(nl) + 1, Len(s)))

\* str.split(sep), sep a single character
RECURSIVE Split(_, _)
Split(s, sep) ==
    LET at == { k \in 1..Len(s) : Char(s, k) = sep }
    IN  IF at = {} THEN << s >>
        ELSE << SubSeq(s, 1, Min(at) - 1) >>
             \o Split(SubSeq(s, Min(at) + 1, Len(s)), sep)

Range(f) == { f[i] : i \in DOMAIN f }

----------------------------------------------------------------------------
(* LANGUAGE_PATTERNS *)

None == "None"

\* the keys of LANGUAGE_PATTERNS, in the order of the dict
Languages == << "python", "javascript", "java", "csharp" >>

LANGUAGE_PATTERNS ==
    [ python     |-> [ extensions |-> << ".py" >>,
                       import_patterns |-> << "py_import", "py_from" >> ],
      javascript |-> [ extensions |-> << ".js", ".jsx", ".ts", ".tsx" >>,
                       import_patterns |-> << "js_import_from", "js_const_require" >> ],
      java       |-> [ extensions |-> << ".java" >>,
                       import_patterns |-> << "java_import" >> ],
      csharp     |-> [ extensions |-> << ".cs" >>,
                       import_patterns |-> << "cs_using" >> ] ]

\* some of the names in sys.stdlib_module_names and sys.builtin_module_names
StdlibModuleNames ==
    { "os", "sys", "re", "json", "pathlib", "typing", "unittest", "tkinter",
      "collections", "math" }

\* the list of Node built-in modules
NodeBuiltins ==
    { "fs", "path", "http", "https", "url", "util", "events", "stream",
      "crypto", "zlib", "buffer", "child_process", "cluster", "dgram",
      "dns", "domain", "os", "net", "readline", "repl", "tls", "tty",
      "vm", "assert", "constants", "module", "process", "querystring",
      "string_decoder", "timers", "v8", "punycode" }

\* LANGUAGE_PATTERNS[language]['stdlib_check'](name)
StdlibCheck(language, name) ==
    CASE language = "python" ->
            \/ name \in StdlibModuleNames
            \/ StartsWith(name, "_")
            \/ name \in { "test", "unittest", "distutils", "setuptools", "pip" }
      [] language = "javascript" -> name \in NodeBuiltins
      [] language = "java" -> StartsWith(name, "java.") \/ StartsWith(name, "javax.")
      [] language = "csharp" -> StartsWith(name, "System.") \/ StartsWith(name, "Microsoft.")

----------------------------------------------------------------------------
(* re.findall(pattern, line): every pattern is anchored by ^, so the list  *)
(* holds the capture group of the one match at the start of the line, or   *)
(* is empty.                                                               *)

\* ^keyword\s+([a-zA-Z0-9_\.]+)  followed by the literal tail
MatchKeywordModule(line, keyword, tail) ==
    LET ws == RunEnd(line, Len(keyword) + 1, Whitespace)
        m  == RunEnd(line, ws + 1, ModuleChars)
    IN  IF /\ StartsWith(line, keyword)
           /\ ws >= Len(keyword) + 1
           /\ m >= ws + 1
           /\ StartsWithAt(line, m + 1, tail)
        THEN << SubSeq(line, ws + 1, m) >>
        ELSE << >>

\* ^from\s+([a-zA-Z0-9_\.]+)\s+import
MatchPyFrom(line) ==
    LET ws1 == RunEnd(line, 5, Whitespace)
        m   == RunEnd(line, ws1 + 1, ModuleChars)
        ws2 == RunEnd(line, m + 1, Whitespace)
    IN  IF /\ StartsWith(line, "from")
           /\ ws1 >= 5
           /\ m >= ws1 + 1
           /\ ws2 >= m + 1
           /\ StartsWithAt(line, ws2 + 1, "import")
        THEN << SubSeq(line, ws1 + 1, m) >>
        ELSE << >>

\* ['"]([^/'"][^'"]*)['"] followed by the literal tail, with the opening
\* quote at position q: the end of the capture group, or 0 when no match
QuotedEnd(line, q, tail) ==
    LET e == RunEndNot(line, q + 2, Quotes)
    IN  IF /\ q + 1 <= Len(line)
           /\ Char(line, q) \in Quotes
           /\ Char(line, q + 1) \notin Quotes \cup { "/" }
           /\ e + 1 <= Len(line)
           /\ StartsWithAt(line, e + 2, tail)
        THEN e
        ELSE 0

\* from\s+['"]([^/'"][^'"]*)['"]  matched at position p
JsFromAt(line, p) ==
    LET ws == RunEnd(line, p + 4, Whitespace)
    IN  IF StartsWithAt(line, p, "from") /\ ws >= p + 4
        THEN << ws + 1, QuotedEnd(line, ws + 1, "") >>
        ELSE << 0, 0 >>

\* ^import\s+.*?from\s+['"]([^/'"][^'"]*)['"]
MatchJsImportFrom(line) ==
    LET at == { p \in 8..Len(line) : JsFromAt(line, p)[2] > 0 }
    IN  IF StartsWith(line, "import") /\ Char(line, 7) \in Whitespace /\ at # {}
        THEN LET q == JsFromAt(line, Min(at))
             IN  << SubSeq(line, q[1] + 1, q[2]) >>
        ELSE << >>

\* =\s+require\(['"]([^/'"][^'"]*)['"]\)  matched at position p
JsRequireAt(line, p) ==
    LET ws == RunEnd(line, p + 1, Whitespace)
    IN  IF /\ Char(line, p) = "="
           /\ ws >= p + 1
           /\ StartsWithAt(line, ws + 1, "require(")
        THEN << ws + 9, QuotedEnd(line, ws + 9, ")") >>
        ELSE << 0, 0 >>

\* ^const\s+.*?=\s+require\(['"]([^/'"][^'"]*)['"]\)
MatchJsConstRequire(line) ==
    LET at == { p \in 7..Len(line) : JsRequireAt(line, p)[2] > 0 }
    IN  IF StartsWith(line, "const") /\ Char(line, 6) \in Whitespace /\ at # {}
        THEN LET q == JsRequireAt(line, Min(at))
             IN  << SubSeq(line, q[1] + 1, q[2]) >>
        ELSE << >>

FindAll(pattern, line) ==
    CASE pattern = "py_import"        -> MatchKeywordModule(line, "import", "")
      [] pattern = "py_from"          -> MatchPyFrom(line)
      [] pattern = "js_import_from"   -> MatchJsImportFrom(line)
      [] pattern = "js_const_require" -> MatchJsConstRequire(line)
      [] pattern = "java_import"      -> MatchKeywordModule(line, "import", ";")
      [] pattern = "cs_using"         -> MatchKeywordModule(line, "using", ";")

----------------------------------------------------------------------------
(* PACKAGE_MAP: the entries whose value differs from the key, and some of  *)
(* the entries that map a name to itself.                                  *)

PACKAGE_MAP ==
    [ python |->
        [ dotenv |-> "python-dotenv", sklearn |-> "scikit-learn",
          PIL |-> "Pillow", yaml |-> "PyYAML", cv2 |-> "opencv-python",
          bs4 |-> "beautifulsoup4", unittest |-> "unittest2",
          typing |-> "typing-extensions", pyjwt |-> "PyJWT",
          opencv |-> "opencv-python", pillow |-> "Pillow",
          pyaudio |-> "PyAudio", pyopengl |-> "PyOpenGL",
          pygobject |-> "PyGObject", pyqt5 |-> "PyQt5", pyqt6 |-> "PyQt6",
          pyside2 |-> "PySide2", pyside6 |-> "PySide6",
          tkinter |-> "python-tk", wx |-> "wxPython",
          numpy |-> "numpy", requests |-> "requests", flask |-> "flask" ],
      javascript |->
        [ react |-> "@types/react", angular |-> "@angular/core",
          apollo |-> "apollo-client", babel |-> "@babel/core",
          solid |-> "solid-js", lodash |-> "lodash", express |-> "express",
          axios |-> "axios" ] ]

\* PackageMapGet that matches the keys of the table without regard to case
PackageMapGetFolded(language, package) ==
    IF language \in DOMAIN PACKAGE_MAP
       /\ \E key \in DOMAIN PACKAGE_MAP[language] : Lower(key) = Lower(package)
    THEN PACKAGE_MAP[language][CHOOSE key \in DOMAIN PACKAGE_MAP[language] :
                                   Lower(key) = Lower(package)]
    ELSE Lower(package)

\* PACKAGE_MAP.get(language, {}).get(package, package.lower())
PackageMapGet(language, package) ==
    IF language \in DOMAIN PACKAGE_MAP /\ package \in DOMAIN PACKAGE_MAP[language]
    THEN PACKAGE_MAP[language][package]
    ELSE Lower(package)

----------------------------------------------------------------------------
(* Paths *)

\* Path(p).parts, for a relative path
Parts(path) == Split(path, "/")

\* Path(p).suffix
Suffix(path) ==
    LET name == Parts(path)[Len(Parts(path))]
        dots == { k \in 1..Len(name) : Char(name, k) = "." }
    IN  IF dots # {} /\ Max(dots) > 1 /\ Max(dots) < Len(name)
        THEN SubSeq(name, Max(dots), Len(name))
        ELSE ""

\* detect_language that compares the extension as written
DetectCaseSensitive(file_path) ==
    LET ext == Suffix(file_path)
        hits == { i \in DOMAIN Languages :
                    ext \in Range(LANGUAGE_PATTERNS[Languages[i]].extensions) }
    IN  IF hits = {} THEN None ELSE Languages[Min(hits)]

\* detect_language(file_path)
detect_language(file_path) ==
    LET ext == Lower(Suffix(file_path))
        hits == { i \in DOMAIN Languages :
                    ext \in Range(LANGUAGE_PATTERNS[Languages[i]].extensions) }
    IN  IF hits = {} THEN None ELSE Languages[Min(hits)]

----------------------------------------------------------------------------
(* extract_imports *)

Encodings == << "utf-8", "latin-1", "cp1252" >>

\* ReadContent that tries the encodings from the last to the first
ReadContentLastFirst(entry) ==
    LET ok == { i \in DOMAIN Encodings : Encodings[i] \in DOMAIN entry.decoded }
    IN  IF ok = {} THEN None ELSE entry.decoded[Encodings[Max(ok)]]

\* the content read from the file: the text under the first encoding that
\* decodes the file's bytes, None when no encoding does
ReadContent(entry) ==
    LET ok == { i \in DOMAIN Encodings : Encodings[i] \in DOMAIN entry.decoded }
    IN  IF ok = {} THEN None ELSE entry.decoded[Encodings[Min(ok)]]

\* Base without the split: the whole import path
BaseWhole(match) == match

\* match.split('.')[0]
Base(match) == Split(match, ".")[1]

\* the identifiers the body of the loop over the lines adds for one line
LineImports(rawline, language) ==
    LET line == Strip(rawline)
        patterns == LANGUAGE_PATTERNS[language].import_patterns
        matches == UNION { Range(FindAll(patterns[i], line)) : i \in DOMAIN patterns }
    IN  IF line = "" \/ StartsWith(line, "#") \/ StartsWith(line, "//")
        THEN {}
        ELSE { Base(match) : match \in
                 { m \in matches : /\ Base(m) # ""
                                   /\ ~StdlibCheck(language, Base(m))
                                   /\ ~StartsWith(Base(m), ".") } }

\* extract_imports that takes the text of a file whatever open() does
ExtractImportsAnyway(entry, language) ==
    UNION { LineImports(SplitLines(entry.text)[i], language) :
              i \in DOMAIN SplitLines(entry.text) }

\* extract_imports(file_path, language); an exception while the file is
\* opened or read is caught and gives the empty set
extract_imports(entry, language) ==
    IF ~entry.readable
    THEN {}
    ELSE LET content == ReadContent(entry)
         IN  IF content = None
             THEN {}
             ELSE UNION { LineImports(SplitLines(content)[i], language) :
                            i \in DOMAIN SplitLines(content) }

----------------------------------------------------------------------------
(* scan_directory *)

IsPrefix(a, b) == Len(a) <= Len(b) /\ SubSeq(b, 1, Len(a)) = a

\* path.exists()
PathExists(fs, path) ==
    \E i \in DOMAIN fs : IsPrefix(Parts(path), Parts(fs[i].path))

\* path.is_file()
IsFile(fs, path) ==
    \E i \in DOMAIN fs : fs[i].path = path /\ ~fs[i].is_dir

\* the entries of fs selected by keep, in the order of fs
RECURSIVE Select(_, _, _)
Select(fs, keep, i) ==
    IF i > Len(fs) THEN << >>
    ELSE (IF i \in keep THEN << i >> ELSE << >>) \o Select(fs, keep, i + 1)

\* path.rglob('*'): every entry below path, in the order the file system
\* enumerates them
Rglob(fs, path) ==
    Select(fs, { i \in DOMAIN fs : /\ IsPrefix(Parts(path), Parts(fs[i].path))
                                   /\ Len(Parts(fs[i].path)) > Len(Parts(path)) }, 1)

\* ScanList that falls back to the whole disk when the path does not exist
ScanListFallback(fs, path) ==
    IF ~PathExists(fs, path) THEN Select(fs, DOMAIN fs, 1)
    ELSE IF IsFile(fs, path)
         THEN Select(fs, { i \in DOMAIN fs : fs[i].path = path }, 1)
         ELSE Rglob(fs, path)

\* the entries scan_directory iterates over; none when the path does not exist
ScanList(fs, path) ==
    IF ~PathExists(fs, path) THEN << >>
    ELSE IF IsFile(fs, path)
         THEN Select(fs, { i \in DOMAIN fs : fs[i].path = path }, 1)
         ELSE Rglob(fs, path)

ExcludedSegments == { "venv", "__pycache__", "node_modules" }

\* Excluded as a substring test on the whole path
ExcludedSubstring(file_path) ==
    \E seg \in ExcludedSegments :
        \E i \in 1..Len(file_path) : StartsWithAt(file_path, i, seg)

\* 'venv' in file_path.parts or '__pycache__' in ... or 'node_modules' in ...
Excluded(file_path) ==
    \E seg \in ExcludedSegments : seg \in Range(Parts(file_path))

\* Skipped that tests only the segments below the root of the scan
SkippedBelowRoot(entry) ==
    LET parts == Parts(entry.path)
        n == Len(Parts(directory))
        below == IF Len(parts) > n THEN SubSeq(parts, n + 1, Len(parts))
                 ELSE << parts[Len(parts)] >>
    IN  entry.is_dir \/ \E seg \in ExcludedSegments : seg \in Range(below)

\* the test that makes the loop body `continue` before detect_language
Skipped(entry) == entry.is_dir \/ Excluded(entry.path)

\* DictUpdate that assigns the set instead of updating it
DictOverwrite(dict, lang, found) ==
    IF \E i \in DOMAIN dict : dict[i].lang = lang
    THEN [ i \in DOMAIN dict |->
             IF dict[i].lang = lang
             THEN [ dict[i] EXCEPT !.packages = found ]
             ELSE dict[i] ]
    ELSE Append(dict, [ lang |-> lang, packages |-> found ])

\* imports_by_language.setdefault(lang, set()).update(found)
DictUpdate(dict, lang, found) ==
    IF \E i \in DOMAIN dict : dict[i].lang = lang
    THEN [ i \in DOMAIN dict |->
             IF dict[i].lang = lang
             THEN [ dict[i] EXCEPT !.packages = @ \cup found ]
             ELSE dict[i] ]
    ELSE Append(dict, [ lang |-> lang, packages |-> found ])

\* Accumulate without `if found_imports:`
AccumulateAlways(dict, lang, found) == DictUpdate(dict, lang, found)

\* `if found_imports:` and the update of the dict
Accumulate(dict, lang, found) ==
    IF found # {} THEN DictUpdate(dict, lang, found) ELSE dict

----------------------------------------------------------------------------
(* get_latest_version *)

\* RequestUrl with a registry for every language
RequestUrlAnyLanguage(package, language) ==
    "https://registry.example/" \o language \o "/" \o PackageMapGet(language, package)

\* the GET the call issues, None when it issues none
RequestUrl(package, language) ==
    CASE language = "python" ->
            "https://pypi.org/pypi/" \o PackageMapGet(language, package) \o "/json"
      [] language = "javascript" ->
            "https://registry.npmjs.org/" \o PackageMapGet(language, package) \o "/latest"
      [] OTHER -> None

\* the outcome of evaluating an expression: the exception it raises, or
\* the value it gives
Raises(exception) == [ raised |-> exception, value |-> None ]
Returns(value) == [ raised |-> None, value |-> value ]

\* the values resp.json() gives
JsonString(s) == [ type |-> "string", text |-> s, members |-> << >> ]
JsonObject(m) == [ type |-> "object", text |-> "", members |-> m ]

\* the path of keys the branch for language reads the version at
VersionKeys(language) ==
    IF language = "python" THEN << "info", "version" >> ELSE << "version" >>

\* value[keys[1]][keys[2]]...: KeyError when an object lacks the key,
\* TypeError when the value is a str
RECURSIVE Subscript(_, _)
Subscript(value, keys) ==
    IF keys = << >> THEN Returns(value.text)
    ELSE IF value.type # "object" THEN Raises("TypeError")
    ELSE IF Head(keys) \notin DOMAIN value.members THEN Raises("KeyError")
    ELSE Subscript(value.members[Head(keys)], Tail(keys))

\* the body of the try after the URL is built: requests.get raises when
\* there is no response; otherwise `resp.json()[...] if resp.status_code
\* == 200 else None`, where resp.json() raises on a body that is not JSON
VersionFrom(response, language) ==
    IF response.outcome # "response" THEN Raises(response.outcome)
    ELSE IF response.status # 200 THEN Returns(None)
    ELSE IF ~response.body.json THEN Raises("JSONDecodeError")
    ELSE Subscript(response.body.value, VersionKeys(language))

\* get_latest_version without `except Exception`
GetLatestVersionUncaught(package, language, response) ==
    IF language \notin { "python", "javascript" } THEN None
    ELSE LET body == VersionFrom(response, language)
         IN  IF body.raised # None THEN "raised " \o body.raised ELSE body.value

\* get_latest_version(package, language), given the outcome of its GET: an
\* exception of the body is caught and printed, and None is returned
get_latest_version(package, language, response) ==
    IF language \notin { "python", "javascript" } THEN None
    ELSE LET body == VersionFrom(response, language)
         IN  IF body.raised # None THEN None ELSE body.value

\* Truthy without the test: the version is always written
TruthyAlways(version) == TRUE

\* `if version` in the two writers
Truthy(version) == version # None /\ version # ""

----------------------------------------------------------------------------
(* generate_requirements: the manifests *)

\* sorted(packages)
RECURSIVE Sorted(_)
Sorted(S) ==
    IF S = {} THEN << >>
    ELSE LET least == CHOOSE x \in S : \A y \in S \ {x} : StrLess(x, y)
         IN  << least >> \o Sorted(S \ {least})

\* the loop over all_imports.items() with its `if not packages: continue`:
\* the first position from i on whose packages are not empty, Len + 1 when
\* there is none
NextBucket(dict, i) ==
    LET rest == { j \in i..Len(dict) : dict[j].packages # {} }
    IN  IF rest = {} THEN Len(dict) + 1 ELSE Min(rest)

\* ManifestName with output_file for every language but javascript
ManifestNameShared(lang, out) ==
    IF lang = "javascript" THEN "package.json" ELSE out

\* the name of the file the branch for lang opens
ManifestName(lang, out) ==
    CASE lang = "python" -> out
      [] lang = "javascript" -> "package.json"
      [] OTHER -> "requirements-" \o lang \o ".txt"

\* OpenForWrite with mode 'a': the content of an existing file is kept
OpenForAppend(dir, name) ==
    IF name \in DOMAIN dir THEN dir ELSE (name :> "") @@ dir

\* open(name, 'w'): the file exists and is empty
OpenForWrite(dir, name) == (name :> "") @@ dir

\* f.write(text)
WriteTo(dir, name, text) == [ dir EXCEPT ![name] = @ \o text ]

\* what is written right after the file is opened
Header(lang) ==
    IF lang = "javascript" THEN "{\n  \"dependencies\": {\n" ELSE ""

\* what is written right before the file is closed
Footer(lang) ==
    IF lang = "javascript" THEN "  }\n}" ELSE ""

\* Entry with a comma after every JSON entry, the last included
EntryCommaAlways(lang, pkg, version, i, n) ==
    CASE lang = "python" ->
            IF Truthy(version) THEN pkg \o "==" \o version \o "\n" ELSE pkg \o "\n"
      [] lang = "javascript" ->
            IF Truthy(version)
            THEN "    \"" \o pkg \o "\": \"" \o version \o "\",\n"
            ELSE "    \"" \o pkg \o "\": \"*\",\n"
      [] OTHER -> pkg \o "\n"

\* Entry that leaves out a package whose version is not known
EntryOmitUnknown(lang, pkg, version, i, n) ==
    CASE lang = "python" ->
            IF Truthy(version) THEN pkg \o "==" \o version \o "\n" ELSE ""
      [] lang = "javascript" ->
            LET comma == IF i - 1 < n - 1 THEN "," ELSE ""
            IN  IF Truthy(version)
                THEN "    \"" \o pkg \o "\": \"" \o version \o "\"" \o comma \o "\n"
                ELSE ""
      [] OTHER -> pkg \o "\n"

\* the text written for the i-th of n packages
Entry(lang, pkg, version, i, n) ==
    CASE lang = "python" ->
            IF Truthy(version) THEN pkg \o "==" \o version \o "\n" ELSE pkg \o "\n"
      [] lang = "javascript" ->
            LET comma == IF i - 1 < n - 1 THEN "," ELSE ""
            IN  IF Truthy(version)
                THEN "    \"" \o pkg \o "\": \"" \o version \o "\"" \o comma \o "\n"
                ELSE "    \"" \o pkg \o "\": \"*\"" \o comma \o "\n"
      [] OTHER -> pkg \o "\n"

----------------------------------------------------------------------------
(* The environment: the source files, the arguments and the registries *)

\* a file of ASCII bytes: every encoding decodes them to the same text
File(path, text) ==
    [ path |-> path, is_dir |-> FALSE, text |-> text,
      decoded |-> [ enc \in Range(Encodings) |-> text ], readable |-> TRUE ]

Dir(path) ==
    [ path |-> path, is_dir |-> TRUE, text |-> "",
      decoded |-> [ enc \in {} |-> "" ], readable |-> FALSE ]

\* a file with bytes above 0x7f: decoded gives the text under each encoding
\* that decodes the bytes (latin-1 decodes any bytes), text is the text
\* under latin-1, which has one character for each byte
Encoded(path, decoded) ==
    [ File(path, decoded["latin-1"]) EXCEPT !.decoded = decoded ]

\* a file on which open() or read() raises (PermissionError, OSError)
Unreadable(path, text) == [ File(path, text) EXCEPT !.readable = FALSE ]

\* the entries a disk is made of
Entries ==
    { File("proj/app.py", "import os\nimport requests\nimport dotenv\n"),
      File("proj/Util.PY", "import requests\nfrom .helpers import x\nimport PIL.Image\n"),
      File("proj/std.py", "import sys\nfrom os.path import join\n"),
      File("proj/pkg/venv/lib/deep.py", "import secretlib\n"),
      File("proj/web/index.js", "const _ = require('lodash')\nimport React from 'react'\n"),
      File("proj/Main.java", "import org.junit.Test;\n"),
      File("proj/README.md", "import nothing\n") }

\* the disks over a pool of entries: at most MaxFiles distinct entries, in
\* any enumeration order
DisksOf(pool) ==
    { d \in UNION { [ 1..n -> pool ] : n \in 0..MaxFiles } :
        \A i, j \in DOMAIN d : i # j => d[i] # d[j] }

Disks == DisksOf(Entries)

\* the values of the argument directory
Directories == { "proj", "proj/pkg/venv", "proj/app.py", "missing" }

\* the default value of the argument output_file
DefaultOutput == "requirements.txt"

\* the values of the argument output_file
OutputFiles == { DefaultOutput, "package.json", "requirements-java.txt" }

\* the outcomes of a registry GET
Response(status, body) == [ outcome |-> "response", status |-> status, body |-> body ]
Failure(kind) ==
    [ outcome |-> kind, status |-> 0, body |-> [ json |-> FALSE, value |-> JsonString("") ] ]

JsonBody(value) == [ json |-> TRUE, value |-> value ]
NotJson == [ json |-> FALSE, value |-> JsonString("<html>") ]

\* the documents of pypi.org/pypi/<name>/json and registry.npmjs.org/<name>/latest
PypiDoc(version) == JsonObject("info" :> JsonObject("version" :> JsonString(version)))
NpmDoc(version) == JsonObject("version" :> JsonString(version))

Responses ==
    { Response(200, JsonBody(PypiDoc("2.0.1"))),
      Response(200, JsonBody(NpmDoc("4.17.21"))),
      Response(200, JsonBody(JsonObject("info" :> JsonObject("name" :> JsonString("x"))))),
      Response(200, JsonBody(JsonObject("info" :> JsonString("x")))),
      Response(200, JsonBody(JsonObject("error" :> JsonString("Not found")))),
      Response(200, NotJson),
      Response(201, JsonBody(PypiDoc("2.0.1"))),
      Response(404, JsonBody(JsonObject("message" :> JsonString("Not Found")))),
      Response(404, NotJson),
      Response(500, NotJson),
      Failure("Timeout"),
      Failure("ConnectionError") }

\* the two outcomes the runs of generate_requirements draw from: the
\* registry's document with a version, and a timeout
Answers(language) ==
    { Response(200, JsonBody(IF language = "python"
                             THEN PypiDoc("2.0.1") ELSE NpmDoc("2.0.1"))),
      Failure("Timeout") }

NoHandle == "NoHandle"
NoCall == << None, None >>

\* the state before the first call, with one of the disks and one of the
\* working directories
InitWith(disks, cwds) ==
    /\ disk \in disks
    /\ cwd \in cwds
    /\ registry = << >>
    /\ pc = "idle"
    /\ directory = None
    /\ output_file = None
    /\ files = << >>
    /\ imports_by_language = << >>
    /\ found_imports = {}
    /\ lang_idx = 0
    /\ pkg_idx = 0
    /\ handle = NoHandle
    /\ reads = {}
    /\ gets = << >>
    /\ written = {}
    /\ console = << >>
    /\ result = None
    /\ calls = 0
    /\ before = [ start |-> << >>, prev |-> NoCall, repeat |-> FALSE ]

\* the same, with an empty working directory
InitFrom(disks) == InitWith(disks, { << >> })

Init == InitFrom(Disks)

----------------------------------------------------------------------------
(* generate_requirements(directory, output_file), step by step *)

\* the call returns None to its caller
Return ==
    /\ pc' = "returned"
    /\ result' = "returned None"

\* the call, print("Scanning directory"), and scan_directory up to its loop
Call(dir, out) ==
    /\ pc = "idle"
    /\ calls < MaxCalls
    /\ calls' = calls + 1
    /\ directory' = dir
    /\ output_file' = out
    /\ result' = "running"
    /\ before' = [ start |-> cwd, prev |-> before.prev,
                   repeat |-> (before.prev = << dir, out >>) ]
    /\ files' = ScanList(disk, dir)
    /\ imports_by_language' = << >>
    /\ found_imports' = {}
    /\ console' = IF PathExists(disk, dir)
                  THEN << "scanning" >>
                  ELSE << "scanning", "path does not exist" >>
    /\ pc' = IF files' = << >> THEN "scanned" ELSE "scanning"
    /\ reads' = {}
    /\ gets' = << >>
    /\ written' = {}
    /\ lang_idx' = 0
    /\ pkg_idx' = 0
    /\ UNCHANGED << disk, cwd, registry, handle >>

\* one iteration of the loop of scan_directory
ScanEntry ==
    /\ pc = "scanning"
    /\ LET entry == disk[Head(files)]
           lang == detect_language(entry.path)
       IN  IF Skipped(entry) \/ lang = None
           THEN UNCHANGED << imports_by_language, found_imports, reads >>
           ELSE /\ found_imports' = extract_imports(entry, lang)
                /\ reads' = reads \cup { entry.path }
                /\ imports_by_language' =
                     Accumulate(imports_by_language, lang, found_imports')
    /\ files' = Tail(files)
    /\ pc' = IF files' = << >> THEN "scanned" ELSE "scanning"
    /\ UNCHANGED << disk, cwd, registry, directory, output_file, lang_idx,
                    pkg_idx, handle, gets, written, console, result, calls,
                    before >>

\* `if not all_imports`: print and return
NoImports ==
    /\ pc = "scanned"
    /\ imports_by_language = << >>
    /\ console' = Append(console, "no third-party imports found")
    /\ Return
    /\ UNCHANGED << disk, cwd, registry, directory, output_file, files,
                    imports_by_language, found_imports, lang_idx, pkg_idx,
                    handle, reads, gets, written, calls, before >>

\* the loop over all_imports.items() goes to the next language with
\* packages: they are listed and the manifest is opened; the call returns
\* when no language is left
NextLanguage ==
    /\ \/ pc = "scanned" /\ imports_by_language # << >>
       \/ pc = "lang"
    /\ lang_idx' = NextBucket(imports_by_language, lang_idx + 1)
    /\ IF lang_idx' > Len(imports_by_language)
       THEN /\ Return
            /\ UNCHANGED << cwd, handle, written, console, pkg_idx >>
       ELSE LET lang == imports_by_language[lang_idx'].lang
                name == ManifestName(lang, output_file)
            IN  /\ handle' = name
                /\ written' = written \cup { name }
                /\ cwd' = WriteTo(OpenForWrite(cwd, name), name, Header(lang))
                /\ console' = Append(console, "packages found: " \o lang)
                /\ pkg_idx' = 1
                /\ pc' = "emit"
                /\ UNCHANGED result
    /\ UNCHANGED << disk, registry, directory, output_file, files,
                    imports_by_language, found_imports, reads, gets, calls,
                    before >>

\* an exception that leaves get_latest_version, as its caller sees it
Propagates(version) == StartsWith(version, "raised")

\* one iteration of the loop over sorted(packages): the version is looked
\* up (python, javascript) and the entry is written; an exception that
\* reached this loop would leave the with block, which closes the file,
\* and the call
EmitPackage ==
    /\ pc = "emit"
    /\ LET lang == imports_by_language[lang_idx].lang
           packages == Sorted(imports_by_language[lang_idx].packages)
           pkg == packages[pkg_idx]
           url == IF lang \in { "python", "javascript" }
                  THEN RequestUrl(pkg, lang) ELSE None
       IN  /\ pkg_idx <= Len(packages)
           /\ IF url = None
              THEN /\ cwd' = WriteTo(cwd, handle, Entry(lang, pkg, None, pkg_idx, Len(packages)))
                   /\ UNCHANGED << registry, gets, console, pc, handle, result >>
              ELSE \E response \in Answers(lang) :
                     LET version == get_latest_version(pkg, lang, response)
                     IN  /\ url \in DOMAIN registry => response = registry[url]
                         /\ registry' = (url :> response) @@ registry
                         /\ gets' = Append(gets, url)
                         /\ IF Propagates(version)
                            THEN /\ pc' = "returned"
                                 /\ result' = version
                                 /\ handle' = NoHandle
                                 /\ UNCHANGED << cwd, console >>
                            ELSE /\ console' =
                                      IF VersionFrom(response, lang).raised = None
                                      THEN console
                                      ELSE Append(console, "failed to get version")
                                 /\ cwd' = WriteTo(cwd, handle,
                                                   Entry(lang, pkg, version,
                                                         pkg_idx, Len(packages)))
                                 /\ UNCHANGED << pc, handle, result >>
    /\ pkg_idx' = pkg_idx + 1
    /\ UNCHANGED << disk, directory, output_file, files,
                    imports_by_language, found_imports, lang_idx,
                    reads, written, calls, before >>

\* CloseManifest that can leave the loop over the packages at any iteration
CloseManifestEarly ==
    /\ pc = "emit"
    /\ cwd' = WriteTo(cwd, handle, Footer(imports_by_language[lang_idx].lang))
    /\ handle' = NoHandle
    /\ console' = Append(console, "saved: " \o handle)
    /\ pc' = "lang"
    /\ UNCHANGED << disk, registry, directory, output_file, files,
                    imports_by_language, found_imports, lang_idx, pkg_idx,
                    reads, gets, written, result, calls, before >>

\* the loop over the packages is over: the manifest is closed
CloseManifest ==
    /\ pc = "emit"
    /\ pkg_idx > Cardinality(imports_by_language[lang_idx].packages)
    /\ cwd' = WriteTo(cwd, handle, Footer(imports_by_language[lang_idx].lang))
    /\ handle' = NoHandle
    /\ console' = Append(console, "saved: " \o handle)
    /\ pc' = "lang"
    /\ UNCHANGED << disk, registry, directory, output_file, files,
                    imports_by_language, found_imports, lang_idx, pkg_idx,
                    reads, gets, written, result, calls, before >>

\* the caller has seen the outcome: the locals of the call are gone, the
\* working directory and the registries stay
Discard ==
    /\ pc = "returned"
    /\ pc' = "idle"
    /\ before' = [ start |-> << >>, prev |-> << directory, output_file >>,
                   repeat |-> FALSE ]
    /\ directory' = None
    /\ output_file' = None
    /\ files' = << >>
    /\ imports_by_language' = << >>
    /\ found_imports' = {}
    /\ lang_idx' = 0
    /\ pkg_idx' = 0
    /\ reads' = {}
    /\ gets' = << >>
    /\ written' = {}
    /\ console' = << >>
    /\ result' = None
    /\ UNCHANGED << disk, cwd, registry, handle, calls >>

\* the steps of a call in progress
Step ==
    \/ ScanEntry
    \/ NoImports
    \/ NextLanguage
    \/ EmitPackage
    \/ CloseManifest
    \/ Discard

\* calls with the default output file
Next ==
    \/ \E dir \in Directories : Call(dir, DefaultOutput)
    \/ Step

Spec == Init /\ [][Next]_vars

----------------------------------------------------------------------------
(* extract_imports on its own: one source file of every language, with     *)
(* every text of at most MaxLines lines                                    *)

SourceLines ==
    [ python |->
        { "import requests", "import os", "import os, requests",
          "import numpy.linalg as la", "from flask import Flask",
          "from .utils import helper", "from . import x",
          "from os.path import join", "# import commented",
          "    import dotenv", "x = 1" },
      javascript |->
        { "const x = require('lodash')", "import React from 'react'",
          "import fs from 'fs'", "import u from './utils'",
          "const io = require(\"socket.io\");", "const p = require('path')",
          "// import a from 'b'", "import x from \"../lib/x.js\"",
          "  import { Component } from '@angular/core';" },
      java |->
        { "import java.util.List;", "import org.junit.Test;",
          "import static org.junit.Assert.assertTrue;",
          "// import com.acme.X;", "import javax.swing.JFrame;" },
      csharp |->
        { "using System.Text;", "using Newtonsoft.Json;",
          "// using Foo.Bar;", "using Microsoft.Extensions.Logging;" } ]

RECURSIVE JoinLines(_)
JoinLines(lines) ==
    IF lines = << >> THEN ""
    ELSE Head(lines) \o "\n" \o JoinLines(Tail(lines))

Texts(language) ==
    { JoinLines(lines) :
        lines \in UNION { [ 1..n -> SourceLines[language] ] : n \in 0..MaxLines } }

SourceDisks ==
    UNION { { << File("proj/src" \o LANGUAGE_PATTERNS[language].extensions[1], text) >> :
                text \in Texts(language) } :
            language \in Range(Languages) }

\* extract_imports(file_path, detect_language(file_path)) for the one file
ExtractCall ==
    /\ pc = "idle"
    /\ pc' = "extracted"
    /\ found_imports' = extract_imports(disk[1], detect_language(disk[1].path))
    /\ reads' = { disk[1].path }
    /\ UNCHANGED << disk, cwd, registry, directory, output_file, files,
                    imports_by_language, lang_idx, pkg_idx, handle, gets,
                    written, console, result, calls, before >>

NextExtract == ExtractCall

InitExtract == InitFrom(SourceDisks)

SpecExtract == InitExtract /\ [][NextExtract]_vars

----------------------------------------------------------------------------
(* The scan over paths of every shape: disks made of the entries below     *)

PathEntries ==
    { File("proj/venv/lib.py", "import secretlib\n"),
      File("proj/a/b/venv/c/deep.py", "import secretlib\n"),
      File("proj/venvtools/t.py", "import toolslib\n"),
      File("proj/__pycache__/c.py", "import secretlib\n"),
      File("proj/my__pycache__/d.py", "import cachelib\n"),
      File("proj/web/node_modules/m.js", "const s = require('secretlib')\n"),
      File("proj/node_modules.js", "const n = require('namelib')\n"),
      File("proj/app.py", "import requests\n"),
      Dir("proj/web") }

InitPaths == InitFrom(DisksOf(PathEntries))

SpecPaths == InitPaths /\ [][Next]_vars

----------------------------------------------------------------------------
(* get_latest_version on its own: one call for every package, language and *)
(* outcome of the GET                                                      *)

LookupPackages ==
    { "requests", "dotenv", "Dotenv", "Flask", "PIL", "pil", "yam",
      "lodash", "react", "React", "junit" }

\* version = get_latest_version(package, language); the arguments are kept
\* as the bucket the caller is iterating over
LookupCall(package, language) ==
    /\ pc = "idle"
    /\ pc' = "looked up"
    /\ imports_by_language' = << [ lang |-> language, packages |-> { package } ] >>
    /\ lang_idx' = 1
    /\ LET url == RequestUrl(package, language)
       IN  IF url = None
           THEN /\ result' = get_latest_version(package, language, Failure("no request"))
                /\ UNCHANGED << registry, gets, console >>
           ELSE \E response \in Responses :
                  /\ registry' = (url :> response) @@ registry
                  /\ gets' = Append(gets, url)
                  /\ result' = get_latest_version(package, language, response)
                  /\ console' = IF VersionFrom(response, language).raised = None
                                THEN console
                                ELSE Append(console, "failed to get version")
    /\ UNCHANGED << disk, cwd, directory, output_file, files, found_imports,
                    pkg_idx, handle, reads, written, calls, before >>

NextLookup ==
    \E package \in LookupPackages : \E language \in Range(Languages) :
        LookupCall(package, language)

InitLookup == InitFrom({ << >> })

SpecLookup == InitLookup /\ [][NextLookup]_vars

----------------------------------------------------------------------------
(* Calls of generate_requirements and of get_latest_version over trees     *)
(* with sources of languages with and without a registry                   *)

RegistryEntries ==
    { File("proj/app.py", "import requests\n"),
      File("proj/Main.java", "import org.junit.Test;\nimport com.google.gson.Gson;\n"),
      File("proj/App.cs", "using Newtonsoft.Json;\n") }

InitRegistries == InitFrom(DisksOf(RegistryEntries))

NextRegistries == Next \/ NextLookup

SpecRegistries == InitRegistries /\ [][NextRegistries]_vars

----------------------------------------------------------------------------
(* Runs to completion: a call in progress takes its next step (no step     *)
(* blocks: the GET has a timeout), over trees with two packages per        *)
(* registry                                                                *)

IsolationEntries ==
    { File("proj/app.py", "import requests\nimport dotenv\n"),
      File("proj/web/index.js", "const _ = require('lodash')\nimport React from 'react'\n"),
      File("proj/Main.java", "import org.junit.Test;\n") }

InitIsolation == InitFrom(DisksOf(IsolationEntries))

\* weak fairness of Step, WF_vars(Step), written out: Step is enabled
\* exactly when a call is in progress (pc # "idle"), and every Step changes
\* vars
Fairness == []<>(pc = "idle") \/ []<><<Step>>_vars

SpecIsolation == InitIsolation /\ [][Next]_vars /\ Fairness

----------------------------------------------------------------------------
(* The scan over trees with files that cannot be read                      *)

UnreadableEntries ==
    { File("proj/app.py", "import requests\nimport dotenv\n"),
      Unreadable("proj/locked.py", "import lockedlib\nimport requests\n"),
      File("proj/web/index.js", "const _ = require('lodash')\n"),
      Unreadable("proj/web/locked.js", "const l = require('lockedlib')\n"),
      File("proj/Main.java", "import org.junit.Test;\n") }

InitUnreadable == InitFrom(DisksOf(UnreadableEntries))

SpecUnreadable == InitUnreadable /\ [][Next]_vars

----------------------------------------------------------------------------
(* JavaScript trees with one to three packages                             *)

JsonEntries ==
    { File("proj/web/a.js", "const _ = require('lodash')\n"),
      File("proj/web/b.jsx", "import React from 'react'\nconst e = require('express')\n"),
      File("proj/web/c.ts", "import axios from 'axios'\n"),
      File("proj/app.py", "import requests\n") }

InitJson == InitFrom(DisksOf(JsonEntries))

SpecJson == InitJson /\ [][Next]_vars

----------------------------------------------------------------------------
(* Calls in a working directory that already holds files                   *)

PriorFiles ==
    { << >>,
      "requirements.txt" :> "flask==0.1\nrequests==1.0.0\nzope==5.0\n",
      "package.json" :> "{\n  \"name\": \"app\",\n  \"dependencies\": {}\n}\n",
      "requirements-java.txt" :> "org\n" }

InitPrior == InitWith(DisksOf(IsolationEntries), PriorFiles)

SpecPrior == InitPrior /\ [][Next]_vars

----------------------------------------------------------------------------
(* Trees whose imports name one package under several identifiers          *)

AliasEntries ==
    { File("proj/vision.py", "import cv2\nimport opencv\n"),
      File("proj/image.py", "from PIL import Image\n"),
      File("proj/thumb.py", "import pillow\nimport requests\n"),
      File("proj/web/ui.js", "import React from 'react'\n") }

InitAliases == InitFrom(DisksOf(AliasEntries))

SpecAliases == InitAliases /\ [][Next]_vars

----------------------------------------------------------------------------
(* The scan over trees with files whose bytes are not ASCII                *)

\* U+0085 and U+2028, written as the form feed: like it, each ends a line
\* for str.splitlines() and is white space for str.strip() and \s
LineSeparator == "\f"

\* a character above U+007F that is not white space and ends no line,
\* written as the tilde: like it, it is matched by no class of the patterns
NonAscii == "~"

EncodingEntries ==
    { File("proj/app.py", "import requests\n"),
      \* import numpy, e2 80 a8, import flask: U+2028 in UTF-8
      Encoded("proj/sep.py",
              [ enc \in Range(Encodings) |->
                  IF enc = "utf-8"
                  THEN "import numpy" \o LineSeparator \o "import flask\n"
                  ELSE "import numpy" \o NonAscii \o NonAscii \o NonAscii
                                     \o "import flask\n" ]),
      \* a comment, 85, import yaml: not UTF-8; U+0085 in latin-1 and
      \* U+2026 in cp1252
      Encoded("proj/nel.py",
              [ enc \in { "latin-1", "cp1252" } |->
                  IF enc = "latin-1"
                  THEN "# -*- note" \o LineSeparator \o "import yaml\n"
                  ELSE "# -*- note" \o NonAscii \o "import yaml\n" ]),
      File("proj/web/index.js", "const _ = require('lodash')\n") }

InitEncodings == InitFrom(DisksOf(EncodingEntries))

SpecEncodings == InitEncodings /\ [][Next]_vars

----------------------------------------------------------------------------
(* The scan over trees with sources that import standard libraries only    *)

StdlibEntries ==
    { File("proj/Main.java", "import java.util.List;\nimport javax.swing.JFrame;\n"),
      File("proj/App.cs", "using System.Text;\nusing Microsoft.Extensions.Logging;\n"),
      File("proj/std.py", "import os\nfrom pathlib import Path\n"),
      File("proj/web/std.js", "const p = require('path')\n"),
      File("proj/Test.java", "import org.junit.Test;\n") }

InitStdlib == InitFrom(DisksOf(StdlibEntries))

SpecStdlib == InitStdlib /\ [][Next]_vars

----------------------------------------------------------------------------
(* Calls with every value of output_file                                   *)

OutputEntries ==
    { File("proj/app.py", "import requests\n"),
      File("proj/web/index.js", "const _ = require('lodash')\n"),
      File("proj/Main.java", "import org.junit.Test;\n") }

InitOutputs == InitFrom(DisksOf(OutputEntries))

NextOutputs ==
    \/ \E dir \in { "proj", "missing" } : \E out \in OutputFiles : Call(dir, out)
    \/ Step

SpecOutputs == InitOutputs /\ [][NextOutputs]_vars

----------------------------------------------------------------------------
(* Scans whose root is, or lies below, a directory with an excluded name   *)

RootEntries ==
    { File("proj/venv/app.py", "import requests\n"),
      File("proj/venv/web/index.js", "const _ = require('lodash')\n"),
      File("node_modules/pkg/index.js", "const e = require('express')\n"),
      File("proj/src/main.py", "import flask\n"),
      File("proj/venvs/tool.py", "import numpy\n") }

\* the values of the argument directory
Roots ==
    { "proj", "proj/venv", "proj/venv/app.py", "proj/venv/web", "node_modules",
      "proj/src", "proj/venvs" }

InitRoots == InitFrom(DisksOf(RootEntries))

NextRoots ==
    \/ \E dir \in Roots : Call(dir, DefaultOutput)
    \/ Step

SpecRoots == InitRoots /\ [][NextRoots]_vars

----------------------------------------------------------------------------
(* The scan over file names of every shape of extension                    *)

ExtensionEntries ==
    { File("proj/Upper.PY", "import upperlib\n"),
      File("proj/a.tar.py", "import tarlib\n"),
      File("proj/b.py.txt", "import txtlib\n"),
      File("proj/.py", "import hiddenlib\n"),
      File("proj/c.Jsx", "const a = require('jsxlib')\n"),
      File("proj/d.ts", "import x from 'tslib'\n"),
      File("proj/F.java", "import org.junit.Test;\n"),
      File("proj/g.CS", "using Newtonsoft.Json;\n"),
      File("proj/lib.py/h.md", "import dirlib\n"),
      File("proj/i.pyc", "import pyclib\n") }

InitExtensions == InitFrom(DisksOf(ExtensionEntries))

SpecExtensions == InitExtensions /\ [][Next]_vars

----------------------------------------------------------------------------
(* Properties *)

\* the manifest that has just been closed (pc = "lang")
ClosedLang == imports_by_language[lang_idx].lang
ClosedPackages == imports_by_language[lang_idx].packages
ClosedLines == SplitLines(cwd[ManifestName(ClosedLang, output_file)])

\* the line names the package: `name` or `name==version`
Names(line, name) == line = name \/ StartsWith(line, name \o "==")

\* the line is the entry of the package in the JSON manifest
NamesJs(line, name) == StartsWith(Strip(line), "\"" \o name \o "\":")

\* the line is the JSON entry that maps the package to value
MapsJs(line, name, value) ==
    Strip(line) \in { "\"" \o name \o "\": \"" \o value \o "\"" \o comma :
                        comma \in { "", "," } }

\* the entries below (or at) the scan root that are source files of some
\* language and have no excluded segment
HasExcludedSegment(path) ==
    \E k \in DOMAIN Parts(path) :
        Parts(path)[k] \in { "venv", "__pycache__", "node_modules" }

Scannable ==
    { i \in DOMAIN disk : /\ IsPrefix(Parts(directory), Parts(disk[i].path))
                          /\ ~disk[i].is_dir
                          /\ ~HasExcludedSegment(disk[i].path)
                          /\ detect_language(disk[i].path) # None }

Bucket(lang) ==
    UNION { imports_by_language[i].packages :
              i \in { j \in DOMAIN imports_by_language :
                        imports_by_language[j].lang = lang } }

AllDetected == UNION { Bucket(Languages[i]) : i \in DOMAIN Languages }

\* C1: when the Python manifest is closed, every detected identifier that
\* the alias table maps to a different name is named in the manifest by
\* that canonical name, and no line names the identifier itself
C1_AliasNamedInManifest ==
    (pc = "lang" /\ ClosedLang = "python") =>
        \A i \in ClosedPackages :
            (i \in DOMAIN PACKAGE_MAP.python /\ PACKAGE_MAP.python[i] # i) =>
                /\ \E k \in DOMAIN ClosedLines : Names(ClosedLines[k], PACKAGE_MAP.python[i])
                /\ \A k \in DOMAIN ClosedLines : ~Names(ClosedLines[k], i)

\* C2: when the scan root does not exist, the caller observes an error, not
\* the normal return it observes for an existing tree without third-party
\* imports
C2_MissingRootSignalled ==
    (pc = "returned" /\ ~PathExists(disk, directory)) => result # "returned None"

\* C3: during and after a call whose scan root does not exist, no source
\* file has been read, no registry request issued, no manifest opened, and
\* the working directory is as it was when the call began
C3_MissingRootNoEffect ==
    (pc \in { "scanning", "scanned", "lang", "emit", "returned" }
     /\ ~PathExists(disk, directory)) =>
        /\ reads = {}
        /\ gets = << >>
        /\ written = {}
        /\ cwd = before.start

C3_Witness ==
    /\ pc = "returned"
    /\ ~PathExists(disk, directory)
    /\ disk # << >>
    /\ cwd # << >>

\* C4: when a call returns that had the same arguments as the call before
\* it, the working directory is byte for byte what that call left, which
\* is what the second call found when it began
C4_Idempotent ==
    (pc = "returned" /\ before.repeat) => cwd = before.start

C4_Witness ==
    /\ pc = "returned"
    /\ before.repeat
    /\ Cardinality(written) >= 2
    /\ gets # << >>

\* C5: when a manifest is closed, a package whose lookup returned no version
\* has the bare line `name` (Python) or the entry "name": "*" (JS), and a
\* package whose lookup returned v has `name==v` or "name": "v"
C5_VersionSuffix ==
    (pc = "lang" /\ ClosedLang \in { "python", "javascript" }) =>
        \A pkg \in ClosedPackages :
            LET v == get_latest_version(pkg, ClosedLang,
                                       registry[RequestUrl(pkg, ClosedLang)])
                lines == Range(ClosedLines)
            IN  IF ClosedLang = "python"
                THEN IF v = None
                     THEN /\ pkg \in lines
                          /\ \A l \in lines : ~StartsWith(l, pkg \o "==")
                     ELSE /\ (pkg \o "==" \o v) \in lines
                          /\ pkg \notin lines
                ELSE IF v = None
                     THEN \E l \in lines : MapsJs(l, pkg, "*")
                     ELSE /\ \E l \in lines : MapsJs(l, pkg, v)
                          /\ \A l \in lines : ~MapsJs(l, pkg, "*")

C5_Witness ==
    /\ pc = "lang"
    /\ ClosedLang = "javascript"
    /\ \E p, q \in ClosedPackages :
          /\ get_latest_version(p, ClosedLang,
                                registry[RequestUrl(p, ClosedLang)]) = None
          /\ get_latest_version(q, ClosedLang,
                                registry[RequestUrl(q, ClosedLang)]) # None

\* C6: a call that detected no third-party import returns normally, having
\* reported it, with no manifest opened, no lookup made and the working
\* directory unchanged; and every manifest opened by a call belongs to a
\* language with at least one detected package
C6_NothingForEmpty ==
    /\ (pc = "returned" /\ AllDetected = {}) =>
          /\ written = {}
          /\ gets = << >>
          /\ cwd = before.start
          /\ result = "returned None"
          /\ console[Len(console)] = "no third-party imports found"
    /\ \A name \in written :
          \E i \in DOMAIN imports_by_language :
              /\ imports_by_language[i].packages # {}
              /\ ManifestName(imports_by_language[i].lang, output_file) = name

C6_Witness ==
    /\ pc = "returned"
    /\ AllDetected = {}
    /\ PathExists(disk, directory)
    /\ cwd # << >>

\* C7: when the scan is over, the set of every language is the union of
\* what extract_imports gives for the scannable files of that language,
\* whatever the order of the disk, and the dict has one entry per language;
\* when a manifest is closed it has one entry per identifier of the set
C7_UnionOnce ==
    /\ pc = "scanned" =>
          LET scanned == Scannable
              language == [ i \in scanned |-> detect_language(disk[i].path) ]
          IN  /\ \A l \in DOMAIN Languages :
                    Bucket(Languages[l]) =
                        UNION { extract_imports(disk[i], Languages[l]) :
                                  i \in { j \in scanned : language[j] = Languages[l] } }
              /\ \A i, j \in DOMAIN imports_by_language :
                    imports_by_language[i].lang = imports_by_language[j].lang => i = j
    /\ pc = "lang" =>
          LET lines == ClosedLines
          IN  /\ Len(lines) = Cardinality(ClosedPackages)
                                + (IF ClosedLang = "javascript" THEN 4 ELSE 0)
              /\ \A pkg \in ClosedPackages :
                    Cardinality({ k \in DOMAIN lines :
                                    IF ClosedLang = "javascript"
                                    THEN NamesJs(lines[k], pkg)
                                    ELSE Names(lines[k], pkg) }) = 1

C7_Witness ==
    /\ pc = "lang"
    /\ \E i, j \in Scannable :
          /\ i # j
          /\ detect_language(disk[i].path) = ClosedLang
          /\ detect_language(disk[j].path) = ClosedLang
          /\ extract_imports(disk[i], ClosedLang)
               \cap extract_imports(disk[j], ClosedLang) # {}
          /\ extract_imports(disk[i], ClosedLang)
               # extract_imports(disk[j], ClosedLang)

\* C8: when the scan is over, the files read are exactly the source files
\* below the root none of whose path segments equals venv, __pycache__ or
\* node_modules, and every identifier of every set comes from such a file
C8_ExactSegment ==
    pc = "scanned" =>
        /\ reads = { disk[i].path : i \in Scannable }
        /\ \A b \in DOMAIN imports_by_language :
              \A x \in imports_by_language[b].packages :
                  \E i \in Scannable :
                      x \in extract_imports(disk[i], imports_by_language[b].lang)

C8_Witness ==
    /\ pc = "scanned"
    /\ "proj/venvtools/t.py" \in reads
    /\ "toolslib" \in AllDetected
    /\ \E i \in DOMAIN disk :
          /\ disk[i].path = "proj/a/b/venv/c/deep.py"
          /\ IsPrefix(Parts(directory), Parts(disk[i].path))
    /\ "secretlib" \notin AllDetected

\* the modules a Python import statement imports: every module of
\* `import a.b, c as d`, and the module of `from a.b import c`
LeadingName(text) == SubSeq(text, 1, RunEnd(text, 1, ModuleChars))

PyStatementModules(rawline) ==
    LET line == Strip(rawline)
    IN  IF StartsWith(line, "import") /\ Char(line, 7) \in Whitespace
        THEN { LeadingName(Strip(piece)) :
                 piece \in Range(Split(SubSeq(line, 8, Len(line)), ",")) }
        ELSE IF StartsWith(line, "from") /\ Char(line, 5) \in Whitespace
        THEN { LeadingName(Strip(SubSeq(line, 6, Len(line)))) }
        ELSE {}

\* C9: the result of extract_imports holds the root identifier of every
\* module imported by a statement of the file that is not in the standard
\* library (and not relative), `lodash` for `const x = require('lodash')`,
\* and no identifier for which the stdlib predicate is true
C9_EveryImportStatement ==
    pc = "extracted" =>
        LET language == detect_language(disk[1].path)
            lines == Range(SplitLines(disk[1].text))
        IN  /\ language = "python" =>
                  \A line \in lines : \A module \in PyStatementModules(line) :
                      LET root == Split(module, ".")[1]
                      IN  (root # "" /\ ~StdlibCheck("python", root)) =>
                              root \in found_imports
            /\ (language = "javascript" /\ "const x = require('lodash')" \in lines) =>
                  "lodash" \in found_imports
            /\ \A x \in found_imports : ~StdlibCheck(language, x)

\* C10: no identifier in a result of extract_imports or in a set of the
\* scan is empty, begins with a dot or contains a dot
C10_NoDots ==
    \A x \in found_imports \cup AllDetected :
        /\ x # ""
        /\ ~StartsWith(x, ".")
        /\ "." \notin CharSet(x)

C10_Witness ==
    /\ pc = "extracted"
    /\ "from .utils import helper" \in Range(SplitLines(disk[1].text))
    /\ "import numpy.linalg as la" \in Range(SplitLines(disk[1].text))
    /\ found_imports = { "numpy" }

\* the entries below (or at) the scan root that are files, have no excluded
\* segment, and whose final extension, lower-cased, is one of language's
WithExtensionOf(language) ==
    { i \in DOMAIN disk :
        /\ IsPrefix(Parts(directory), Parts(disk[i].path))
        /\ ~disk[i].is_dir
        /\ ~HasExcludedSegment(disk[i].path)
        /\ Lower(Suffix(disk[i].path)) \in Range(LANGUAGE_PATTERNS[language].extensions) }

\* C11: no two languages share an extension; when the scan is over, the
\* files read are exactly the files whose final extension, lower-cased, is
\* in some language's list, and the set of every language is what
\* extract_imports gives, under that language, for the files whose
\* extension is in its list: a file with no such extension is not read and
\* adds nothing to any set
C11_DetectByExtension ==
    /\ \A i, j \in DOMAIN Languages :
          i # j => Range(LANGUAGE_PATTERNS[Languages[i]].extensions)
                     \cap Range(LANGUAGE_PATTERNS[Languages[j]].extensions) = {}
    /\ pc = "scanned" =>
          /\ reads = { disk[i].path :
                         i \in UNION { WithExtensionOf(Languages[l]) :
                                         l \in DOMAIN Languages } }
          /\ \A l \in DOMAIN Languages :
                Bucket(Languages[l]) =
                    UNION { extract_imports(disk[i], Languages[l]) :
                              i \in WithExtensionOf(Languages[l]) }

C11_Witness ==
    /\ pc = "scanned"
    /\ \E i \in DOMAIN disk :
          /\ Suffix(disk[i].path) # Lower(Suffix(disk[i].path))
          /\ disk[i].path \in reads
          /\ extract_imports(disk[i], detect_language(disk[i].path)) # {}
    /\ \E i \in DOMAIN disk :
          /\ IsPrefix(Parts(directory), Parts(disk[i].path))
          /\ disk[i].path \notin reads
          /\ "." \in CharSet(disk[i].path)

\* the document has a string at the place the registry of language keeps
\* the version
HasVersion(value, language) ==
    IF language = "python"
    THEN /\ value.type = "object"
         /\ "info" \in DOMAIN value.members
         /\ value.members["info"].type = "object"
         /\ "version" \in DOMAIN value.members["info"].members
         /\ value.members["info"].members["version"].type = "string"
    ELSE /\ value.type = "object"
         /\ "version" \in DOMAIN value.members
         /\ value.members["version"].type = "string"

\* C12: a call of get_latest_version that issued a GET gives its caller a
\* value, never an exception; the value is None when the GET timed out or
\* the connection failed, when the status is not 2xx, when the body is not
\* JSON and when the document lacks the version; and it is a version only
\* when the status is 200 and the document holds that version
C12_LookupNeverRaises ==
    (pc = "looked up" /\ gets # << >>) =>
        LET language == imports_by_language[1].lang
            response == registry[gets[1]]
            failed == \/ response.outcome # "response"
                      \/ response.status \notin 200..299
                      \/ ~response.body.json
                      \/ ~HasVersion(response.body.value, language)
        IN  /\ ~StartsWith(result, "raised")
            /\ failed => result = None
            /\ result # None =>
                  /\ response.outcome = "response"
                  /\ response.status = 200
                  /\ response.body.json
                  /\ HasVersion(response.body.value, language)
                  /\ result \in { "2.0.1", "4.17.21" }

C12_Witness ==
    /\ pc = "looked up"
    /\ gets # << >>
    /\ registry[gets[1]].status = 200
    /\ registry[gets[1]].body.json
    /\ ~HasVersion(registry[gets[1]].body.value, imports_by_language[1].lang)
    /\ result = None
    /\ console # << >>

\* the language of the bucket the call is at
CurrentLang == imports_by_language[lang_idx].lang

\* C13: a call of get_latest_version for a language other than python and
\* javascript returns None and has issued no GET; and no step of
\* generate_requirements taken while the manifest of such a language is
\* open issues a GET
C13_NoRegistryNoRequest ==
    /\ [](pc = "looked up" /\ CurrentLang \notin { "python", "javascript" }
            => result = None /\ gets = << >>)
    /\ [][(pc = "emit" /\ CurrentLang \notin { "python", "javascript" })
            => gets' = gets /\ registry' = registry]_vars

C13_Witness ==
    /\ pc = "lang"
    /\ CurrentLang \in { "java", "csharp" }
    /\ cwd[ManifestName(CurrentLang, output_file)] # ""
    /\ gets # << >>

\* the call has printed that a lookup failed
LookupFailed == \E k \in DOMAIN console : console[k] = "failed to get version"

\* the version the package's own lookup gave
OwnVersion(pkg, lang) ==
    get_latest_version(pkg, lang, registry[RequestUrl(pkg, lang)])

\* the manifest of the bucket holds the entry that the package's own lookup
\* decides: unpinned when it gave None, pinned to its version otherwise
OwnEntry(bucket, pkg) ==
    LET lines == Range(SplitLines(cwd[ManifestName(bucket.lang, output_file)]))
        v == OwnVersion(pkg, bucket.lang)
    IN  IF bucket.lang = "python"
        THEN (IF v = None THEN pkg ELSE pkg \o "==" \o v) \in lines
        ELSE \E l \in lines : MapsJs(l, pkg, IF v = None THEN "*" ELSE v)

\* C14: in every manifest a call has closed, a package whose lookup failed
\* has its unpinned entry and every other package has the entry its own
\* lookup decides, whatever the other lookups gave; and a call in which a
\* lookup failed goes on and returns normally
C14_FailedLookupIsolated ==
    /\ [](pc \in { "lang", "returned" } =>
            \A j \in DOMAIN imports_by_language :
                (j <= lang_idx /\ imports_by_language[j].lang \in { "python", "javascript" }) =>
                    \A pkg \in imports_by_language[j].packages :
                        OwnEntry(imports_by_language[j], pkg))
    /\ (pc = "emit" /\ LookupFailed) ~> (pc = "returned" /\ result = "returned None")

C14_Witness ==
    /\ pc = "returned"
    /\ LookupFailed
    /\ Len(imports_by_language) >= 2
    /\ \E j \in DOMAIN imports_by_language :
          \E p, q \in imports_by_language[j].packages :
              /\ OwnVersion(p, imports_by_language[j].lang) = None
              /\ OwnVersion(q, imports_by_language[j].lang) # None

\* the tree without the files that cannot be read
CanBeRead(entry) == entry.is_dir \/ entry.readable

WithoutUnreadable(fs) == SelectSeq(fs, CanBeRead)

\* the dict scan_directory builds over the entries of list
RECURSIVE ScanOf(_, _, _)
ScanOf(fs, list, dict) ==
    IF list = << >> THEN dict
    ELSE LET entry == fs[Head(list)]
             lang == detect_language(entry.path)
         IN  ScanOf(fs, Tail(list),
                    IF Skipped(entry) \/ lang = None
                    THEN dict
                    ELSE Accumulate(dict, lang, extract_imports(entry, lang)))

\* C15: when the scan is over, the dict is the one the scan of the same
\* tree without its unreadable files builds (same languages, same order,
\* same sets): an unreadable file adds nothing and the files after it are
\* scanned
C15_UnreadableFileSkipped ==
    pc = "scanned" =>
        LET tree == WithoutUnreadable(disk)
        IN  imports_by_language = ScanOf(tree, ScanList(tree, directory), << >>)

C15_Witness ==
    /\ pc = "scanned"
    /\ Len(disk) >= 2
    /\ ~disk[1].readable
    /\ disk[1].path \in reads
    /\ disk[2].path \in reads
    /\ imports_by_language # << >>

\* the lines of a closed manifest that are entries, in the order of the file
EntryLines(lang, text) ==
    LET lines == SplitLines(text)
    IN  IF lang = "javascript" THEN SubSeq(lines, 3, Len(lines) - 2) ELSE lines

\* the package name an entry line gives
EntryName(lang, line) ==
    IF lang = "javascript"
    THEN SubSeq(Strip(line), 2, RunEndNot(Strip(line), 2, Quotes))
    ELSE SubSeq(line, 1, RunEnd(line, 1, ModuleChars \cup { "-" }))

\* C16: when a manifest is closed, the canonical names (the alias of the
\* name, its lower case when it has none) of its entries ascend from each
\* entry to the next
C16_SortedByCanonicalName ==
    pc = "lang" =>
        LET entries == EntryLines(ClosedLang, cwd[ManifestName(ClosedLang, output_file)])
            canonical == [ k \in DOMAIN entries |->
                             PackageMapGet(ClosedLang, EntryName(ClosedLang, entries[k])) ]
        IN  \A k \in DOMAIN canonical :
                k + 1 \in DOMAIN canonical =>
                    \/ canonical[k] = canonical[k + 1]
                    \/ StrLess(canonical[k], canonical[k + 1])

\* the JSON text of one member: "name": "value"
JsonMember(name, value) == "\"" \o name \o "\": \"" \o value \o "\""

\* C17: when the JavaScript manifest is closed, its text is the object
\* { "dependencies": { ... } } and nothing else; the inner object has one
\* member per package, "name": "version" when the package's lookup gave a
\* version and "name": "*" otherwise; a comma follows every member but the
\* last, and none follows the last
C17_JsonObject ==
    (pc = "lang" /\ ClosedLang = "javascript") =>
        LET lines == ClosedLines
            n == Len(lines)
            members == SubSeq(lines, 3, n - 2)
            value == [ pkg \in ClosedPackages |->
                         IF OwnVersion(pkg, "javascript") = None
                         THEN "*" ELSE OwnVersion(pkg, "javascript") ]
        IN  /\ ClosedPackages # {}
            /\ n = Cardinality(ClosedPackages) + 4
            /\ lines[1] = "{"
            /\ lines[2] = "  \"dependencies\": {"
            /\ lines[n - 1] = "  }"
            /\ lines[n] = "}"
            /\ \A k \in DOMAIN members :
                  \E pkg \in ClosedPackages :
                      members[k] = "    " \o JsonMember(pkg, value[pkg])
                                     \o (IF k < Len(members) THEN "," ELSE "")
            /\ \A pkg \in ClosedPackages :
                  Cardinality({ k \in DOMAIN members :
                                  StartsWith(Strip(members[k]), JsonMember(pkg, value[pkg])) }) = 1

C17_Witness ==
    /\ pc = "lang"
    /\ ClosedLang = "javascript"
    /\ Cardinality(ClosedPackages) = 3
    /\ \E p, q \in ClosedPackages :
          /\ OwnVersion(p, "javascript") = None
          /\ OwnVersion(q, "javascript") # None
    /\ OwnVersion(Sorted(ClosedPackages)[3], "javascript") = None

\* C18: when the manifest of a language other than python and javascript
\* is closed, the file requirements-<lang>.txt was opened by the call and
\* its text is the detected identifiers of the language, each once, each
\* alone on its line and followed by a newline, with no `==`
C18_OtherLanguageManifest ==
    (pc = "lang" /\ ClosedLang \notin { "python", "javascript" }) =>
        LET name == "requirements-" \o ClosedLang \o ".txt"
        IN  /\ ClosedPackages # {}
            /\ name \in written
            /\ name \in DOMAIN cwd
            /\ LET lines == SplitLines(cwd[name])
               IN  /\ Len(lines) = Cardinality(ClosedPackages)
                   /\ Range(lines) = ClosedPackages
                   /\ cwd[name] = JoinLines(lines)
                   /\ \A k \in DOMAIN lines :
                         \A i \in 1..Len(lines[k]) : ~StartsWithAt(lines[k], i, "==")

C18_Witness ==
    /\ pc = "lang"
    /\ ClosedLang = "java"
    /\ Cardinality(ClosedPackages) >= 2
    /\ Cardinality(written) >= 2

\* the text the writer of the bucket's language writes in this call
RECURSIVE EntriesFrom(_, _, _)
EntriesFrom(lang, packages, i) ==
    IF i > Len(packages) THEN ""
    ELSE Entry(lang, packages[i],
               IF lang \in { "python", "javascript" }
               THEN OwnVersion(packages[i], lang) ELSE None,
               i, Len(packages))
         \o EntriesFrom(lang, packages, i + 1)

WrittenText(bucket) ==
    Header(bucket.lang) \o EntriesFrom(bucket.lang, Sorted(bucket.packages), 1)
                        \o Footer(bucket.lang)

\* C19: when a manifest is closed, the file holds exactly the text written
\* by this call for the language, whatever the file held when the call
\* began
C19_TruncateAndRewrite ==
    pc = "lang" =>
        cwd[ManifestName(ClosedLang, output_file)]
            = WrittenText(imports_by_language[lang_idx])

C19_Witness ==
    /\ pc = "lang"
    /\ calls = 1
    /\ ManifestName(ClosedLang, output_file) \in DOMAIN before.start
    /\ before.start[ManifestName(ClosedLang, output_file)]
          # cwd[ManifestName(ClosedLang, output_file)]
    /\ Len(before.start[ManifestName(ClosedLang, output_file)])
          > Len(cwd[ManifestName(ClosedLang, output_file)])

\* C20: when a call that wrote a manifest returns, every manifest file in
\* the working directory was written by that call: none is left from an
\* earlier call
C20_NothingSurvivesARun ==
    (pc = "returned" /\ written # {}) => DOMAIN cwd \subseteq written

\* C21: the GETs of one call are pairwise distinct requests: no package of
\* a registry is asked for twice
C21_OneGetPerPackage ==
    \A i, j \in DOMAIN gets : gets[i] = gets[j] => i = j

C23_Sequential ==
    /\ []((gets # << >> \/ written # {} \/ handle # NoHandle) =>
            (files = << >> /\ pc \in { "emit", "lang", "returned" }))
    /\ [](handle # NoHandle => pc = "emit")
    /\ [][(pc \in { "emit", "lang" }) => (reads' = reads)]_vars
    /\ [][(handle' # handle /\ handle' # NoHandle) => (handle = NoHandle)]_vars
    /\ [][(handle # NoHandle /\ handle' = NoHandle) =>
            LET bucket == imports_by_language[lang_idx]
            IN  /\ \A p \in bucket.packages :
                      \/ RequestUrl(p, bucket.lang) = None
                      \/ RequestUrl(p, bucket.lang) \in DOMAIN registry
                /\ cwd'[handle] = WrittenText(bucket)]_vars

C23_Witness ==
    /\ pc = "lang"
    /\ lang_idx >= 2
    /\ Cardinality(written) >= 2
    /\ Cardinality(reads) >= 2
    /\ Len(gets) >= 2

\* the one package of the call of get_latest_version
LookedUp == CHOOSE p \in imports_by_language[1].packages : TRUE

\* C24: the GET of a lookup names the value of the language's alias table
\* when the identifier is, letter for letter, a key of that table, and the
\* lower-cased identifier otherwise, also when a key differs from it only
\* in case or extends it; a lookup that misses the table, or whose language
\* has no table, fails only when its GET fails
C24_ExactAliasOrLowerCase ==
    pc = "looked up" =>
        LET language == imports_by_language[1].lang
            hit == /\ language \in DOMAIN PACKAGE_MAP
                   /\ LookedUp \in DOMAIN PACKAGE_MAP[language]
            name == IF hit THEN PACKAGE_MAP[language][LookedUp]
                    ELSE Lower(LookedUp)
        IN  /\ language = "python" =>
                  gets = << "https://pypi.org/pypi/" \o name \o "/json" >>
            /\ language = "javascript" =>
                  gets = << "https://registry.npmjs.org/" \o name \o "/latest" >>
            /\ language \notin { "python", "javascript" } =>
                  /\ gets = << >>
                  /\ result = None
                  /\ console = << >>
            /\ (~hit /\ gets # << >>) =>
                  /\ ~StartsWith(result, "raised")
                  /\ LET response == registry[gets[1]]
                     IN  (/\ response.outcome = "response"
                          /\ response.status = 200
                          /\ response.body.json
                          /\ HasVersion(response.body.value, language)) =>
                            (result # None /\ console = << >>)

C24_Witness ==
    /\ pc = "looked up"
    /\ imports_by_language[1] = [ lang |-> "python", packages |-> { "pil" } ]
    /\ gets = << "https://pypi.org/pypi/pil/json" >>
    /\ result = "2.0.1"

\* the text of the first of utf-8, latin-1 and cp1252 that decodes the file
FirstDecoding(entry) ==
    CASE "utf-8" \in DOMAIN entry.decoded -> entry.decoded["utf-8"]
      [] "latin-1" \in DOMAIN entry.decoded -> entry.decoded["latin-1"]
      [] "cp1252" \in DOMAIN entry.decoded -> entry.decoded["cp1252"]
      [] OTHER -> None

\* the identifiers of the lines of a text
TextImports(text, language) ==
    UNION { LineImports(SplitLines(text)[i], language) : i \in DOMAIN SplitLines(text) }

\* C25: the identifiers a readable file gives are those of its text under
\* the first of utf-8, latin-1 and cp1252 that decodes its bytes, and none
\* when no encoding decodes them; the scan goes on to the files after it
C25_FirstEncodingThatDecodes ==
    pc = "scanned" =>
        \A language \in Range(Languages) :
            LET read == { i \in DOMAIN disk :
                            /\ disk[i].path \in reads
                            /\ detect_language(disk[i].path) = language }
                found == UNION { IF FirstDecoding(disk[i]) = None THEN {}
                                 ELSE TextImports(FirstDecoding(disk[i]), language) :
                                 i \in read }
            IN  /\ \A i \in Scannable : disk[i].path \in reads
                /\ found = {} =>
                      \A j \in DOMAIN imports_by_language :
                          imports_by_language[j].lang # language
                /\ found # {} =>
                      \E j \in DOMAIN imports_by_language :
                          imports_by_language[j] = [ lang |-> language, packages |-> found ]

C25_Witness ==
    /\ pc = "scanned"
    /\ Len(disk) >= 2
    /\ disk[1].path = "proj/nel.py"
    /\ disk[2].path = "proj/sep.py"
    /\ reads = { "proj/nel.py", "proj/sep.py" }
    /\ imports_by_language =
          << [ lang |-> "python", packages |-> { "yaml", "numpy", "flask" } ] >>

\* the import paths the patterns of the language capture in the file
ImportPaths(entry, language) ==
    LET lines == SplitLines(entry.text)
        patterns == LANGUAGE_PATTERNS[language].import_patterns
    IN  UNION { Range(FindAll(patterns[k], Strip(lines[i]))) :
                  k \in DOMAIN patterns, i \in DOMAIN lines }

\* the import path lies in a namespace of the platform's standard library
InStandardNamespace(language, path) ==
    CASE language = "java" -> StartsWith(path, "java.") \/ StartsWith(path, "javax.")
      [] language = "csharp" ->
            StartsWith(path, "System.") \/ StartsWith(path, "Microsoft.")

\* C26: when every import of the Java files read is in java.* or javax.*,
\* there is no java bucket and no requirements-java.txt is written, and
\* likewise for the C# files read, System.* and Microsoft.*,
\* and requirements-csharp.txt
C26_StdlibFilteredInEveryLanguage ==
    \A language \in { "java", "csharp" } :
        LET read == { i \in DOMAIN disk :
                        /\ disk[i].path \in reads
                        /\ detect_language(disk[i].path) = language }
        IN  (\A i \in read : \A path \in ImportPaths(disk[i], language) :
                 InStandardNamespace(language, path)) =>
                /\ Bucket(language) = {}
                /\ ManifestName(language, output_file) \notin written

\* C27: when a call returns, the languages with packages have pairwise
\* distinct manifests, and each manifest holds the text written for its
\* language, whatever the value of output_file
C27_DistinctManifests ==
    (pc = "returned" /\ result = "returned None") =>
        LET buckets == { j \in DOMAIN imports_by_language :
                           imports_by_language[j].packages # {} }
            name(j) == ManifestName(imports_by_language[j].lang, output_file)
        IN  /\ \A i, j \in buckets : name(i) = name(j) => i = j
            /\ \A j \in buckets :
                  /\ name(j) \in DOMAIN cwd
                  /\ cwd[name(j)] = WrittenText(imports_by_language[j])

\* C28: a call whose root has a segment equal to venv, __pycache__ or
\* node_modules reads no file, finds no import, asks no registry and writes
\* no manifest, also when the root exists and the files below it import
\* third-party packages
C28_ExcludedRootScansNothing ==
    (pc # "idle" /\ HasExcludedSegment(directory)) =>
        /\ reads = {}
        /\ imports_by_language = << >>
        /\ gets = << >>
        /\ written = {}

\* the scan of an existing file below venv, given as the root, is over:
\* the file imports a third-party package and nothing was found
C28_Witness ==
    /\ pc = "scanned"
    /\ directory = "proj/venv/app.py"
    /\ PathExists(disk, directory)
    /\ \E i \in DOMAIN disk :
          /\ disk[i].path = directory
          /\ "requests" \in extract_imports(disk[i], "python")
    /\ imports_by_language = << >>

====
